---- MODULE Spec2Model ----
\* Helpdesk ticket tracker (Django app "tickets"): the ticket lifecycle of
\* tickets/views.py over the records of tickets/models.py.
\* One action per view; a view is one request handled from start to finish.
\* A request carries its session (request.user and the keys of request.session)
\* and its POST fields; the sessions a request may carry are the ones the
\* login views hand out (Sessions, SessionsClosed).
EXTENDS Integers, FiniteSets, Sequences, TLC

\* ---------------------------------------------------------------- bounds
MaxTickets == 1        \* ticket ids handed out by the store: 1..MaxTickets
MaxTime == 1           \* the clock timezone.now() runs over 0..MaxTime
MaxComments == 1       \* comment ids handed out by the store: 1..MaxComments
MaxDesk == 3           \* tickets on the desk when a run of the desk starts
MaxMinutes == 3        \* minutes the clock runs over in a run of the owner list

\* ------------------------------------------------------------- constants
None == "None"         \* Python None / SQL NULL of a foreign key or a POST field
NoTime == -1           \* NULL of a DateTimeField

\* The clock counts minutes.
TwoMinutes == 2        \* timedelta(minutes=2) of user_tickets
FourHours == 240       \* timedelta(hours=4) of sla_status

PRIORITY_CHOICES == {"low", "medium", "high", "urgent"}
STATUS_CHOICES == {"pending", "in_progress", "completed"}

\* The accounts of the deployment. "root" is the superuser, g1 and g2 are the
\* members of the group 'Agent', h1 and h2 are staff who may be put into the
\* group 'Handler'; "handler" is the account of the special handler login,
\* which exists only once signup or custom_login has created it.
BaseUsers == {"root", "h1", "h2", "g1", "g2"}
Superusers == {"root"}
AgentGroup == {"g1", "g2"}
Staff == {"h1", "h2"}
Departments == {"d1"}

\* Primary keys of auth_user: the base accounts are created first, the
\* account "handler" after them.
UserPk(u) ==
    CASE u = "root" -> 1 [] u = "h1" -> 2 [] u = "h2" -> 3
      [] u = "g1" -> 4 [] u = "g2" -> 5 [] OTHER -> 6

VARIABLES
    tickets,        \* Ticket table: id -> record
    nextId,         \* next auto-increment id of Ticket
    comments,       \* Comment table: set of records
    nextCommentId,  \* next auto-increment id of Comment
    now,            \* timezone.now()
    users,          \* auth_user: username -> password
    handlerGroup,   \* members of the group 'Handler'
    response,       \* what the last request answered
    inflight        \* requests between their read of a ticket and their write

vars == <<tickets, nextId, comments, nextCommentId, now, users, handlerGroup,
          response, inflight>>

\* ------------------------------------------------------------ predicates
\* Mutant: is_staff taken for is_superuser.
is_adminStaff(user) == user \in Superusers \cup Staff

is_admin(user) == user \in Superusers

is_agent(user) == user \in AgentGroup

is_handler(user, group) == user \in group

\* Mutant: the last member taken for the first.
FirstHandlerLast(group) ==
    IF group = {} THEN None
    ELSE CHOOSE u \in group : \A v \in group : UserPk(u) >= UserPk(v)

\* Group.objects.filter(name='Handler').first() and then user_set.first():
\* the member with the smallest primary key, None for no group or no member.
FirstHandler(group) ==
    IF group = {} THEN None
    ELSE CHOOSE u \in group : \A v \in group : UserPk(u) <= UserPk(v)

Anonymous == [user |-> None, handler_logged_in |-> FALSE, handler_user |-> FALSE]

\* django.contrib.auth.login: a session that belongs to another user is
\* flushed, an anonymous one keeps its data.
auth_login(sess, user) ==
    IF sess.user # None /\ sess.user # user
    THEN [Anonymous EXCEPT !.user = user]
    ELSE [sess EXCEPT !.user = user]

\* A freshly created Ticket (models.py defaults and submit_ticket's arguments).
NewTicket(user, handler, department, clock) ==
    [created_by |-> user, agent |-> None, handler |-> handler,
     department |-> department, status |-> "pending", completed_at |-> NoTime,
     created_at |-> clock, sla_due |-> NoTime, priority |-> "medium"]

ResolveDepartment(department_id) ==
    IF department_id \in Departments THEN department_id ELSE None

\* admin_dashboard's changes to the loaded ticket.
AdminUpdate(t, priority, department_id) ==
    [t EXCEPT !.priority = IF priority # "" THEN priority ELSE @,
              !.department = IF department_id # ""
                             THEN ResolveDepartment(department_id) ELSE @]

\* Mutant: the ownership check of agent_dashboard dropped.
AgentAllowedAlways(t, user) == TRUE

\* agent_dashboard: the ticket is assigned to this agent or unassigned.
AgentAllowed(t, user) == t.agent = None \/ t.agent = user

\* agent_dashboard's changes to the loaded ticket.
AgentUpdate(t, user, priority, status, clock) ==
    [t EXCEPT !.agent = user,
              !.priority = IF priority # "" THEN priority ELSE @,
              !.status = IF status # "" THEN status ELSE @,
              !.completed_at = IF status = "completed" THEN clock ELSE NoTime]

\* handler_dashboard's gate: the session flag or membership of 'Handler'.
HandlerAdmitted(sess, group) ==
    sess.handler_logged_in \/ is_handler(sess.user, group)

\* handler_dashboard: assigned to them, unassigned, or the legacy session.
HandlerAllowed(t, sess) ==
    t.handler = None \/ t.handler = sess.user \/ sess.handler_user

\* Mutant: the handler field set without the test for an unassigned ticket.
BoundHandlerAlways(t, sess, group) ==
    IF is_handler(sess.user, group) THEN sess.user ELSE t.handler

\* handler_dashboard: who the handler field is set to by an accepted update.
BoundHandler(t, sess, group) ==
    IF t.handler = None /\ is_handler(sess.user, group) THEN sess.user
    ELSE t.handler

\* Mutant: the status assigned without the test "if status".
HandlerUpdateStatusUnguarded(t, sess, group, priority, status, clock) ==
    [t EXCEPT !.priority = IF priority # "" THEN priority ELSE @,
              !.status = status,
              !.completed_at = IF status = "completed" THEN clock ELSE NoTime,
              !.handler = BoundHandler(t, sess, group)]

\* handler_dashboard's changes to the loaded ticket.
HandlerUpdate(t, sess, group, priority, status, clock) ==
    [t EXCEPT !.priority = IF priority # "" THEN priority ELSE @,
              !.status = IF status # "" THEN status ELSE @,
              !.completed_at = IF status = "completed" THEN clock ELSE NoTime,
              !.handler = BoundHandler(t, sess, group)]

\* Mutant: delete_ticket without its test of the status.
DeletableAlways(t) == TRUE

\* delete_ticket's precondition.
Deletable(t) == t.status = "completed"

\* Ticket.delete(): the row and, by on_delete=CASCADE, its comments.
Without(f, id) == [i \in DOMAIN f \ {id} |-> f[i]]

CommentsWithout(cs, ids) == {c \in cs : c.ticket \notin ids}

\* str.strip() on a text given as a sequence of characters.
RECURSIVE LStrip(_)
LStrip(s) == IF s # <<>> /\ Head(s) = " " THEN LStrip(Tail(s)) ELSE s

RECURSIVE RStrip(_)
RStrip(s) ==
    IF s # <<>> /\ s[Len(s)] = " " THEN RStrip(SubSeq(s, 1, Len(s) - 1)) ELSE s

\* Mutant: lstrip() taken for strip().
StripLeft(s) == LStrip(s)

Strip(s) == RStrip(LStrip(s))

\* Mutant: the comparison of completed_within_hours made strict.
completed_within_hoursStrict(t, minutes) ==
    IF t.completed_at = NoTime THEN FALSE
    ELSE t.completed_at - t.created_at < minutes

\* Ticket.completed_within_hours, the span given in minutes.
completed_within_hours(t, minutes) ==
    IF t.completed_at = NoTime THEN FALSE
    ELSE t.completed_at - t.created_at <= minutes

\* Ticket.sla_status.
sla_status(t) ==
    IF t.status # "completed" THEN "open"
    ELSE IF completed_within_hours(t, FourHours) THEN "on_time"
    ELSE "delayed"

\* Mutant: the filter of user_tickets without its test of completed_at.
OwnerVisibleCompletedAlways(t, user, clock) ==
    /\ t.created_by = user
    /\ t.status \in {"pending", "in_progress", "completed"}

\* user_tickets: the two filters of the queryset. A comparison with NULL
\* selects nothing.
OwnerVisible(t, user, clock) ==
    /\ t.created_by = user
    /\ \/ t.status \in {"pending", "in_progress"}
       \/ /\ t.status = "completed"
          /\ t.completed_at # NoTime
          /\ t.completed_at > clock - TwoMinutes

\* user_tickets: order_by('-created_at'). The order among tickets of one
\* created_at is the database's choice, so every such order is a result.
OrderedByCreatedDesc(ids, table) ==
    {q \in [1 .. Cardinality(ids) -> ids] :
        /\ \A a, b \in 1 .. Cardinality(ids) : a # b => q[a] # q[b]
        /\ \A a, b \in 1 .. Cardinality(ids) :
              a < b => table[q[a]].created_at >= table[q[b]].created_at}

\* The sessions the login views hand out, given the accounts that exist: a
\* plain session of every account, the flagged session of "handler" when the
\* special login authenticates, and a flagged session with the key
\* 'handler_user' for whoever sent the special login when it does not.
Sessions(us) ==
    LET who == DOMAIN us \cup {None}
        plain == {[user |-> u, handler_logged_in |-> FALSE,
                   handler_user |-> FALSE] : u \in who}
        special == IF "handler" \notin DOMAIN us THEN {}
                   ELSE IF us["handler"] = "handler123"
                   THEN {[user |-> "handler", handler_logged_in |-> TRUE,
                          handler_user |-> FALSE]}
                   ELSE {[user |-> u, handler_logged_in |-> TRUE,
                          handler_user |-> TRUE] : u \in who}
    IN plain \cup special

\* A reply of a view that leaves the session as it was.
Kept == [user |-> "-", handler_logged_in |-> FALSE, handler_user |-> FALSE]

\* What a request answered: the view, its message or redirect, the user the
\* request came from, the ticket it named (0 for none), the count the message
\* reports (0 for none), the session the reply sets (Kept for none) and the
\* ids of the tickets a list view renders, in their order (empty for none).
Reply(view, msg, user, ticket_id, count, sess) ==
    [view |-> view, msg |-> msg, user |-> user, ticket_id |-> ticket_id,
     count |-> count, session |-> sess, listed |-> << >>]

\* ------------------------------------------------------------------ Init
\* An empty database and the base accounts.
Init ==
    /\ tickets = << >>
    /\ nextId = 1
    /\ comments = {}
    /\ nextCommentId = 1
    /\ now = 0
    /\ users = [u \in BaseUsers |-> "secret"]
    /\ handlerGroup = {}
    /\ response = Reply("none", "none", None, 0, 0, Kept)
    /\ inflight = << >>

\* A request that answers without touching the database.
Answer(view, msg, user, ticket_id) ==
    /\ response' = Reply(view, msg, user, ticket_id, 0, Kept)
    /\ UNCHANGED <<tickets, nextId, comments, nextCommentId, now, users,
                   handlerGroup, inflight>>

\* A request that writes the Ticket table only.
StoreTickets(new, view, msg, user, ticket_id) ==
    /\ tickets' = new
    /\ response' = Reply(view, msg, user, ticket_id, 0, Kept)
    /\ UNCHANGED <<nextId, comments, nextCommentId, now, users, handlerGroup,
                   inflight>>

\* A login view that sets the session and leaves the database alone.
SetSession(view, msg, user, sess) ==
    /\ response' = Reply(view, msg, user, 0, 0, sess)
    /\ UNCHANGED <<tickets, nextId, comments, nextCommentId, now, users,
                   handlerGroup, inflight>>

\* --------------------------------------------------------------- actions
\* The clock advances.
Tick ==
    /\ now < MaxTime
    /\ now' = now + 1
    /\ UNCHANGED <<tickets, nextId, comments, nextCommentId, users,
                   handlerGroup, response, inflight>>

\* The clock advances by a minute, up to a limit.
Elapse(limit) ==
    /\ now < limit
    /\ now' = now + 1
    /\ UNCHANGED <<tickets, nextId, comments, nextCommentId, users,
                   handlerGroup, response, inflight>>

\* The site's administration puts a staff account into the group 'Handler'.
JoinHandlerGroup(u) ==
    /\ u \in Staff \ handlerGroup
    /\ handlerGroup' = handlerGroup \cup {u}
    /\ UNCHANGED <<tickets, nextId, comments, nextCommentId, now, users,
                   response, inflight>>

\* signup (POST): UserCreationForm refuses a taken username.
signup(sess, username, password) ==
    IF username \in DOMAIN users
    THEN Answer("signup", "form_invalid", sess.user, 0)
    ELSE /\ users' = [u \in DOMAIN users \cup {username} |->
                        IF u = username THEN password ELSE users[u]]
         /\ response' = Reply("signup", "after_login", sess.user, 0, 0,
                              auth_login(sess, username))
         /\ UNCHANGED <<tickets, nextId, comments, nextCommentId, now,
                        handlerGroup, inflight>>

\* custom_login (POST).
custom_login(sess, role, username, password) ==
    IF role = "handler"
    THEN IF username = "handler" /\ password = "handler123"
         THEN LET created == "handler" \notin DOMAIN users
                  pw == IF created THEN "handler123" ELSE users["handler"]
                  flagged == [sess EXCEPT !.handler_logged_in = TRUE]
              IN /\ users' = IF created
                             THEN [u \in DOMAIN users \cup {"handler"} |->
                                     IF u = "handler" THEN "handler123"
                                     ELSE users[u]]
                             ELSE users
                 /\ handlerGroup' = IF created THEN handlerGroup \cup {"handler"}
                                    ELSE handlerGroup
                 /\ response' =
                       Reply("login", "handler_dashboard", sess.user, 0, 0,
                             IF pw = "handler123"
                             THEN auth_login(flagged, "handler")
                             ELSE [flagged EXCEPT !.handler_user = TRUE])
                 /\ UNCHANGED <<tickets, nextId, comments, nextCommentId, now,
                                inflight>>
         ELSE Answer("login", "invalid_handler_credentials", sess.user, 0)
    ELSE IF username \in DOMAIN users /\ users[username] = password
         THEN SetSession("login",
                         IF role = "agent" THEN "agent_dashboard"
                         ELSE IF role = "admin" THEN "admin_dashboard"
                         ELSE IF is_handler(username, handlerGroup)
                              THEN "handler_dashboard"
                         ELSE "submit_ticket",
                         sess.user, auth_login(sess, username))
         ELSE Answer("login", "invalid_login", sess.user, 0)

\* logout_view: the session is flushed.
logout_view(sess) == SetSession("logout", "login", sess.user, Anonymous)

\* submit_ticket (POST).
submit_ticket(sess, department_id) ==
    IF sess.user = None THEN Answer("submit_ticket", "login", sess.user, 0)
    ELSE /\ nextId <= MaxTickets
         /\ tickets' = [i \in DOMAIN tickets \cup {nextId} |->
                          IF i = nextId
                          THEN NewTicket(sess.user, FirstHandler(handlerGroup),
                                         ResolveDepartment(department_id), now)
                          ELSE tickets[i]]
         /\ nextId' = nextId + 1
         /\ response' = Reply("submit_ticket", "submitted", sess.user, nextId, 0,
                              Kept)
         /\ UNCHANGED <<comments, nextCommentId, now, users, handlerGroup,
                        inflight>>

\* admin_dashboard (POST).
admin_dashboard(sess, ticket_id, priority, department_id) ==
    IF sess.user = None \/ ~is_admin(sess.user)
    THEN Answer("admin_dashboard", "login", sess.user, ticket_id)
    ELSE IF ticket_id \notin DOMAIN tickets
    THEN Answer("admin_dashboard", "not_found", sess.user, ticket_id)
    ELSE StoreTickets([tickets EXCEPT ![ticket_id] =
                          AdminUpdate(@, priority, department_id)],
                      "admin_dashboard", "updated", sess.user, ticket_id)

\* agent_dashboard (POST).
agent_dashboard(sess, ticket_id, priority, status) ==
    IF sess.user = None \/ ~is_agent(sess.user)
    THEN Answer("agent_dashboard", "login", sess.user, ticket_id)
    ELSE IF ticket_id \notin DOMAIN tickets
    THEN Answer("agent_dashboard", "not_found", sess.user, ticket_id)
    ELSE IF AgentAllowed(tickets[ticket_id], sess.user)
    THEN StoreTickets([tickets EXCEPT ![ticket_id] =
                          AgentUpdate(@, sess.user, priority, status, now)],
                      "agent_dashboard", "updated", sess.user, ticket_id)
    ELSE Answer("agent_dashboard", "not_allowed", sess.user, ticket_id)

\* Mutant: a ticket that is not stored answered like one of another handler.
handler_dashboardMissingRefused(sess, ticket_id, priority, status) ==
    IF sess.user = None \/ ~HandlerAdmitted(sess, handlerGroup)
    THEN Answer("handler_dashboard", "login", sess.user, ticket_id)
    ELSE IF ticket_id \notin DOMAIN tickets
    THEN Answer("handler_dashboard", "not_allowed", sess.user, ticket_id)
    ELSE IF HandlerAllowed(tickets[ticket_id], sess)
    THEN StoreTickets([tickets EXCEPT ![ticket_id] =
                          HandlerUpdate(@, sess, handlerGroup, priority,
                                        status, now)],
                      "handler_dashboard", "updated", sess.user, ticket_id)
    ELSE Answer("handler_dashboard", "not_allowed", sess.user, ticket_id)

\* handler_dashboard (POST).
handler_dashboard(sess, ticket_id, priority, status) ==
    IF sess.user = None \/ ~HandlerAdmitted(sess, handlerGroup)
    THEN Answer("handler_dashboard", "login", sess.user, ticket_id)
    ELSE IF ticket_id \notin DOMAIN tickets
    THEN Answer("handler_dashboard", "not_found", sess.user, ticket_id)
    ELSE IF HandlerAllowed(tickets[ticket_id], sess)
    THEN StoreTickets([tickets EXCEPT ![ticket_id] =
                          HandlerUpdate(@, sess, handlerGroup, priority,
                                        status, now)],
                      "handler_dashboard", "updated", sess.user, ticket_id)
    ELSE Answer("handler_dashboard", "not_allowed", sess.user, ticket_id)

\* ticket_detail (POST): a comment is added.
ticket_detail(sess, ticket_id, text) ==
    IF sess.user = None THEN Answer("ticket_detail", "login", sess.user, ticket_id)
    ELSE IF ticket_id \notin DOMAIN tickets
    THEN Answer("ticket_detail", "not_found", sess.user, ticket_id)
    ELSE IF Strip(text) # <<>>
    THEN /\ nextCommentId <= MaxComments
         /\ comments' = comments \cup
               {[id |-> nextCommentId, ticket |-> ticket_id,
                 user |-> sess.user, text |-> Strip(text), created_at |-> now]}
         /\ nextCommentId' = nextCommentId + 1
         /\ response' = Reply("ticket_detail", "comment_added", sess.user,
                              ticket_id, 0, Kept)
         /\ UNCHANGED <<tickets, nextId, now, users, handlerGroup, inflight>>
    ELSE Answer("ticket_detail", "no_comment", sess.user, ticket_id)

\* delete_ticket.
delete_ticket(sess, ticket_id) ==
    IF sess.user = None \/ ~is_admin(sess.user)
    THEN Answer("delete_ticket", "login", sess.user, ticket_id)
    ELSE IF ticket_id \notin DOMAIN tickets
    THEN Answer("delete_ticket", "not_found", sess.user, ticket_id)
    ELSE IF ~Deletable(tickets[ticket_id])
    THEN Answer("delete_ticket", "only_completed", sess.user, ticket_id)
    ELSE /\ tickets' = Without(tickets, ticket_id)
         /\ comments' = CommentsWithout(comments, {ticket_id})
         /\ response' = Reply("delete_ticket", "deleted", sess.user, ticket_id,
                              0, Kept)
         /\ UNCHANGED <<nextId, nextCommentId, now, users, handlerGroup,
                        inflight>>

\* Mutant: mark_all_completed without its filter on the status.
mark_all_completedEvery(sess) ==
    IF sess.user = None \/ ~is_admin(sess.user)
    THEN Answer("mark_all_completed", "login", sess.user, 0)
    ELSE StoreTickets([i \in DOMAIN tickets |->
                          [tickets[i] EXCEPT !.status = "completed",
                                             !.completed_at = now]],
                      "mark_all_completed", "all_completed", sess.user, 0)

\* mark_all_completed.
mark_all_completed(sess) ==
    IF sess.user = None \/ ~is_admin(sess.user)
    THEN Answer("mark_all_completed", "login", sess.user, 0)
    ELSE StoreTickets([i \in DOMAIN tickets |->
                          IF tickets[i].status \in {"pending", "in_progress"}
                          THEN [tickets[i] EXCEPT !.status = "completed",
                                                  !.completed_at = now]
                          ELSE tickets[i]],
                      "mark_all_completed", "all_completed", sess.user, 0)

\* Mutant: delete_selected without its filter on the status.
delete_selectedAnyStatus(sess, ids) ==
    LET hit == DOMAIN tickets \cap ids
    IN
    IF sess.user = None \/ ~is_admin(sess.user)
    THEN Answer("delete_selected", "login", sess.user, 0)
    ELSE /\ tickets' = [i \in DOMAIN tickets \ hit |-> tickets[i]]
         /\ comments' = CommentsWithout(comments, hit)
         /\ response' = Reply("delete_selected", "deleted", sess.user, 0,
                              Cardinality(hit), Kept)
         /\ UNCHANGED <<nextId, nextCommentId, now, users, handlerGroup,
                        inflight>>

\* delete_selected (POST).
delete_selected(sess, ids) ==
    LET hit == {i \in DOMAIN tickets \cap ids : tickets[i].status = "completed"}
    IN
    IF sess.user = None \/ ~is_admin(sess.user)
    THEN Answer("delete_selected", "login", sess.user, 0)
    ELSE /\ tickets' = [i \in DOMAIN tickets \ hit |-> tickets[i]]
         /\ comments' = CommentsWithout(comments, hit)
         /\ response' = Reply("delete_selected", "deleted", sess.user, 0,
                              Cardinality(hit), Kept)
         /\ UNCHANGED <<nextId, nextCommentId, now, users, handlerGroup,
                        inflight>>

\* user_tickets: the owner's list.
user_tickets(sess) ==
    IF sess.user = None THEN Answer("user_tickets", "login", sess.user, 0)
    ELSE /\ \E q \in OrderedByCreatedDesc(
                      {i \in DOMAIN tickets :
                          OwnerVisible(tickets[i], sess.user, now)}, tickets) :
               response' = [Reply("user_tickets", "listed", sess.user, 0, 0,
                                  Kept) EXCEPT !.listed = q]
         /\ UNCHANGED <<tickets, nextId, comments, nextCommentId, now, users,
                        handlerGroup, inflight>>

\* A page renders ticket.sla_status of a stored ticket.
render_sla_status(ticket_id) ==
    /\ ticket_id \in DOMAIN tickets
    /\ response' = Reply("sla_status", sla_status(tickets[ticket_id]), None,
                         ticket_id, 0, Kept)
    /\ UNCHANGED <<tickets, nextId, comments, nextCommentId, now, users,
                   handlerGroup, inflight>>

\* -------------------------------------------------- the lifecycle, bounded
\* A run is bounded by the requests it sends: whose sessions send them, who
\* is put into the group 'Handler', who submits, and the values the forms
\* carry ("" is a field left empty).
TicketIds == 1 .. MaxTickets

SessionsOf(actors) == {s \in Sessions(users) : s.user \in actors}

Requests(actors, joins, submitters, priorities, statuses, departments, texts) ==
    \/ Tick
    \/ \E u \in joins : JoinHandlerGroup(u)
    \/ \E s \in SessionsOf(actors) : signup(s, "handler", "correct-horse-9")
    \/ \E s \in SessionsOf(actors), u \in actors \ {None} :
          custom_login(s, "user", u, "secret")
    \/ \E s \in SessionsOf(actors) :
          custom_login(s, "handler", "handler", "handler123")
    \/ \E s \in SessionsOf(actors) : logout_view(s)
    \/ \E s \in SessionsOf(submitters), d \in departments : submit_ticket(s, d)
    \/ \E s \in SessionsOf(actors), i \in TicketIds, p \in priorities,
          d \in departments : admin_dashboard(s, i, p, d)
    \/ \E s \in SessionsOf(actors), i \in TicketIds, p \in priorities,
          t \in statuses : agent_dashboard(s, i, p, t)
    \/ \E s \in SessionsOf(actors), i \in TicketIds, p \in priorities,
          t \in statuses : handler_dashboard(s, i, p, t)
    \/ \E s \in SessionsOf(actors), i \in TicketIds, x \in texts :
          ticket_detail(s, i, x)
    \/ \E s \in SessionsOf(actors), i \in TicketIds : delete_ticket(s, i)
    \/ \E s \in SessionsOf(actors) : mark_all_completed(s)
    \/ \E s \in SessionsOf(actors), ids \in SUBSET TicketIds :
          delete_selected(s, ids)

\* The lifecycle with every value a form can carry, valid or not.
Next ==
    Requests({"root", "h1", "g1"}, {"h1"}, {"g1"},
             {"", "high", "bogus"},
             {"", "pending", "in_progress", "completed", "bogus"},
             {"", "d1", "d9"}, {<<>>, <<" ">>})

Spec == Init /\ [][Next]_vars

\* The handler flow: two members of 'Handler' and the special handler login.
NextHandlers ==
    Requests({"root", "h1", "h2", "g1"}, {"h1", "h2"}, {"g1"},
             {"", "high"}, {"", "completed"}, {""}, {<<>>})

SpecHandlers == Init /\ [][NextHandlers]_vars

\* The agent flow: two agents.
NextAgents ==
    Requests({"root", "g1", "g2", "handler"}, {"h1"}, {"g1"},
             {"", "high"}, {"", "completed"}, {""}, {<<>>})

SpecAgents == Init /\ [][NextAgents]_vars

\* Deletion: tickets with comments.
NextComments ==
    Requests({None, "root", "g1", "handler"}, {"h1"}, {"g1"},
             {""}, {"", "in_progress", "completed"}, {""},
             {<<>>, <<" ">>, <<" ", "a", " ", "b", " ">>})

SpecComments == Init /\ [][NextComments]_vars

\* Submission: the departments a form can name and a group 'Handler' of up
\* to three members.
NextSubmit ==
    Requests({"root", "g1"}, {"h1", "h2"}, {"g1"},
             {""}, {"", "completed"}, {"", "d1", "d9"}, {<<>>})

SpecSubmit == Init /\ [][NextSubmit]_vars

\* --------------------------------------------- a desk of several tickets
\* The desk after MaxDesk submissions in minutes 0 and 1, before anyone was
\* put into the group 'Handler': ticket 2 is g2's, the others are g1's.
DeskIds == 1 .. MaxDesk

DeskOwner(i) == IF i = 2 THEN "g2" ELSE "g1"

DeskTables ==
    {[i \in DeskIds |->
         NewTicket(DeskOwner(i), FirstHandler({}), ResolveDepartment(""), at[i])] :
       at \in {a \in [DeskIds -> {0, 1}] :
                 \A i, j \in DeskIds : i < j => a[i] <= a[j]}}

InitDesk ==
    /\ tickets \in DeskTables
    /\ nextId = MaxDesk + 1
    /\ comments = {}
    /\ nextCommentId = 1
    /\ now = tickets[MaxDesk].created_at
    /\ users = [u \in BaseUsers |-> "secret"]
    /\ handlerGroup = {}
    /\ response = Reply("none", "none", None, 0, 0, Kept)
    /\ inflight = << >>

\* The admin's operations on the desk, next to a handler who completes and
\* reopens tickets; every operation is also tried by users who are no admin.
NextDesk ==
    \/ Tick
    \/ JoinHandlerGroup("h1")
    \/ \E s \in SessionsOf({"h1"}), i \in DeskIds,
          t \in {"in_progress", "completed"} : handler_dashboard(s, i, "", t)
    \/ \E s \in SessionsOf({None, "root", "g1", "h1"}), i \in DeskIds :
          delete_ticket(s, i)
    \/ \E s \in SessionsOf({None, "root", "g1", "h1"}) : mark_all_completed(s)
    \/ \E s \in SessionsOf({None, "root", "g1", "h1"}), ids \in SUBSET DeskIds :
          delete_selected(s, ids)

SpecDesk == InitDesk /\ [][NextDesk]_vars

\* The owners read their lists while a handler completes and reopens the
\* tickets of the desk over some minutes.
NextOwner ==
    \/ Elapse(MaxMinutes)
    \/ JoinHandlerGroup("h1")
    \/ \E s \in SessionsOf({"h1"}), i \in DeskIds,
          t \in {"in_progress", "completed"} : handler_dashboard(s, i, "", t)
    \/ \E s \in SessionsOf({None, "g1", "g2"}) : user_tickets(s)

SpecOwner == InitDesk /\ [][NextOwner]_vars

\* ------------------------------------------------- sla_status, by itself
\* sla_status on one stored ticket of any status and any two timestamps
\* around the four hours (the update views of the site and of the REST
\* interface store any combination of them).
SlaInstants == {0, 1, FourHours - 1, FourHours, FourHours + 1}

SlaTickets ==
    {[NewTicket("g1", None, None, c) EXCEPT !.status = st, !.completed_at = d] :
        st \in STATUS_CHOICES, c \in SlaInstants, d \in SlaInstants \cup {NoTime}}

InitSla ==
    /\ tickets \in {<<t>> : t \in SlaTickets}
    /\ nextId = 2
    /\ comments = {}
    /\ nextCommentId = 1
    /\ now = FourHours + 1
    /\ users = [u \in BaseUsers |-> "secret"]
    /\ handlerGroup = {}
    /\ response = Reply("none", "none", None, 0, 0, Kept)
    /\ inflight = << >>

NextSla == \E i \in DOMAIN tickets : render_sla_status(i)

SpecSla == InitSla /\ [][NextSla]_vars

\* ------------------------------------------- handler updates, interleaved
\* handler_dashboard (POST) up to and including get_object_or_404: request r
\* holds its own copy of the row from here on.
handler_load(r, sess, ticket_id, priority, status) ==
    /\ r \notin DOMAIN inflight
    /\ sess.user # None
    /\ HandlerAdmitted(sess, handlerGroup)
    /\ ticket_id \in DOMAIN tickets
    /\ inflight' = [q \in DOMAIN inflight \cup {r} |->
                      IF q = r
                      THEN [sess |-> sess, ticket_id |-> ticket_id,
                            priority |-> priority, status |-> status,
                            ticket |-> tickets[ticket_id], msg |-> "loaded"]
                      ELSE inflight[q]]
    /\ UNCHANGED <<tickets, nextId, comments, nextCommentId, now, users,
                   handlerGroup, response>>

\* handler_dashboard (POST) from the ownership check on: the check reads the
\* request's copy, and ticket.save() writes every field of the copy.
handler_save(r) ==
    /\ r \in DOMAIN inflight
    /\ inflight[r].msg = "loaded"
    /\ LET q == inflight[r]
           new == HandlerUpdate(q.ticket, q.sess, handlerGroup, q.priority,
                                q.status, now)
       IN IF HandlerAllowed(q.ticket, q.sess)
          THEN /\ tickets' = [i \in DOMAIN tickets \cup {q.ticket_id} |->
                                IF i = q.ticket_id THEN new ELSE tickets[i]]
               /\ inflight' = [inflight EXCEPT ![r].msg = "updated",
                                               ![r].ticket = new]
               /\ response' = Reply("handler_dashboard", "updated",
                                    q.sess.user, q.ticket_id, 0, Kept)
          ELSE /\ tickets' = tickets
               /\ inflight' = [inflight EXCEPT ![r].msg = "not_allowed"]
               /\ response' = Reply("handler_dashboard", "not_allowed",
                                    q.sess.user, q.ticket_id, 0, Kept)
    /\ UNCHANGED <<nextId, comments, nextCommentId, now, users, handlerGroup>>

\* Two requests of the handler flow at a time, next to the other views.
NextRace ==
    \/ Tick
    \/ \E u \in {"h1", "h2"} : JoinHandlerGroup(u)
    \/ \E s \in SessionsOf({"g1"}) : submit_ticket(s, "")
    \/ \E s \in SessionsOf({"root"}), i \in TicketIds : delete_ticket(s, i)
    \/ \E r \in 1 .. 2, s \in SessionsOf({"h1", "h2"}), i \in TicketIds,
          p \in {"", "high"}, t \in {"", "in_progress", "completed"} :
          handler_load(r, s, i, p, t)
    \/ \E r \in 1 .. 2 : handler_save(r)

SpecRace == Init /\ [][NextRace]_vars

\* ------------------------------------------- delete_selected, interleaved
\* delete_selected (POST) up to and including tickets.count(): the first
\* query of the request.
delete_selected_count(r, sess, ids) ==
    /\ r \notin DOMAIN inflight
    /\ sess.user # None
    /\ is_admin(sess.user)
    /\ inflight' = [q \in DOMAIN inflight \cup {r} |->
                      IF q = r
                      THEN [sess |-> sess, ids |-> ids,
                            count |-> Cardinality(
                               {i \in DOMAIN tickets \cap ids :
                                   tickets[i].status = "completed"}),
                            removed |-> << >>, msg |-> "counted"]
                      ELSE inflight[q]]
    /\ UNCHANGED <<tickets, nextId, comments, nextCommentId, now, users,
                   handlerGroup, response>>

\* delete_selected (POST) from tickets.delete() on: the queryset is evaluated
\* again, by a second query, and the message reports the count of the first.
delete_selected_delete(r) ==
    /\ r \in DOMAIN inflight
    /\ inflight[r].msg = "counted"
    /\ LET q == inflight[r]
           hit == {i \in DOMAIN tickets \cap q.ids :
                      tickets[i].status = "completed"}
       IN /\ tickets' = [i \in DOMAIN tickets \ hit |-> tickets[i]]
          /\ comments' = CommentsWithout(comments, hit)
          /\ inflight' = [inflight EXCEPT ![r].msg = "deleted",
                                          ![r].removed = [i \in hit |-> tickets[i]]]
          /\ response' = Reply("delete_selected", "deleted", q.sess.user, 0,
                               q.count, Kept)
    /\ UNCHANGED <<nextId, nextCommentId, now, users, handlerGroup>>

\* One request of delete_selected and mark_all_completed on the desk, next
\* to a handler who completes and reopens tickets.
NextDeskRace ==
    \/ Tick
    \/ JoinHandlerGroup("h1")
    \/ \E s \in SessionsOf({"h1"}), i \in DeskIds,
          t \in {"in_progress", "completed"} : handler_dashboard(s, i, "", t)
    \/ \E s \in SessionsOf({"root"}) : mark_all_completed(s)
    \/ \E s \in SessionsOf({"root"}), ids \in SUBSET DeskIds :
          delete_selected_count(1, s, ids)
    \/ delete_selected_delete(1)

SpecDeskRace == InitDesk /\ [][NextDeskRace]_vars

\* ----------------------------------------------------------------- claims
\* The values a form field can carry: empty, a choice, or anything else.
AnyPriority == PRIORITY_CHOICES \cup {"", "bogus"}
AnyStatus == STATUS_CHOICES \cup {"", "bogus"}

\* The sessions the request of a step can have carried: the reply names its
\* user.
Requester == {s \in Sessions(users) : s.user = response'.user}

\* C1: in every reachable state every stored ticket has completed_at set if
\* and only if its status is 'completed'.
CompletedAtIffCompleted ==
    \A i \in DOMAIN tickets :
        (tickets[i].completed_at # NoTime) <=> (tickets[i].status = "completed")

\* C2: a step changes a ticket's completed_at only by moving its status to
\* 'completed' (completed_at becomes now) or away from 'completed'
\* (completed_at becomes null).
CompletedAtSetOnTransition ==
    [][\A i \in DOMAIN tickets \cap DOMAIN tickets' :
          tickets'[i].completed_at # tickets[i].completed_at =>
             \/ /\ tickets[i].status # "completed"
                /\ tickets'[i].status = "completed"
                /\ tickets'[i].completed_at = now
             \/ /\ tickets[i].status = "completed"
                /\ tickets'[i].status # "completed"
                /\ tickets'[i].completed_at = NoTime]_vars

\* C3: on a ticket bound to handler A, a handler-flow update by an actor of
\* the handler flow other than A is answered 'not allowed' and changes no
\* ticket.
HandlerConflictRejected ==
    [][response'.view = "handler_dashboard" =>
          \A s \in Requester, p \in AnyPriority, t \in AnyStatus :
             LET i == response'.ticket_id IN
             (/\ s.user # None
              /\ HandlerAdmitted(s, handlerGroup)
              /\ i \in DOMAIN tickets
              /\ tickets[i].handler \notin {None, s.user}
              /\ handler_dashboard(s, i, p, t))
             => (response'.msg = "not_allowed" /\ tickets' = tickets)]_vars

\* C4: once a ticket's handler is an actor, no step changes that ticket's
\* handler while the ticket is stored.
HandlerNeverOverwritten ==
    [][\A i \in DOMAIN tickets \cap DOMAIN tickets' :
          tickets[i].handler # None =>
             tickets'[i].handler = tickets[i].handler]_vars

\* C4 witness: a handler-flow update by another actor than the ticket's
\* handler has been accepted, and the ticket still has its handler.
HandlerKeptUnderForeignUpdate ==
    /\ response.view = "handler_dashboard"
    /\ response.msg = "updated"
    /\ response.ticket_id \in DOMAIN tickets
    /\ tickets[response.ticket_id].handler \notin {None, response.user}

\* C5: delete_ticket by an admin removes a completed ticket together with
\* exactly its comments, and answers an error and changes nothing for a
\* ticket of any other status.
DeleteOnlyCompleted ==
    [][response'.view = "delete_ticket" =>
          \A s \in Requester :
             LET i == response'.ticket_id IN
             (/\ is_admin(s.user)
              /\ i \in DOMAIN tickets
              /\ delete_ticket(s, i))
             => IF tickets[i].status = "completed"
                THEN /\ DOMAIN tickets' = DOMAIN tickets \ {i}
                     /\ \A j \in DOMAIN tickets' : tickets'[j] = tickets[j]
                     /\ comments' = {c \in comments : c.ticket # i}
                ELSE /\ response'.msg = "only_completed"
                     /\ tickets' = tickets
                     /\ comments' = comments]_vars

\* C5 witness: a ticket that had a comment has been deleted, and the comment
\* went with it.
DeletedWithComments ==
    /\ response.view = "delete_ticket"
    /\ response.msg = "deleted"
    /\ response.ticket_id \notin DOMAIN tickets
    /\ nextCommentId > 1
    /\ \A c \in comments : c.ticket # response.ticket_id

\* C6: in every reachable state every ticket's status and priority are among
\* the declared choices.
ValuesInChoices ==
    \A i \in DOMAIN tickets :
        /\ tickets[i].status \in STATUS_CHOICES
        /\ tickets[i].priority \in PRIORITY_CHOICES

\* The accepted update of one of the three flows that carries a priority and
\* no other field.
PriorityOnlyUpdate(s, i, p) ==
    CASE response'.view = "admin_dashboard" -> admin_dashboard(s, i, p, "")
      [] response'.view = "agent_dashboard" -> agent_dashboard(s, i, p, "")
      [] response'.view = "handler_dashboard" -> handler_dashboard(s, i, p, "")
      [] OTHER -> FALSE

\* C7 as stated: an accepted update that carries only a priority sets the
\* priority and leaves the ticket's status and handler as they were.
PriorityOnlyFrame ==
    [][response'.msg = "updated" =>
          \A s \in Requester, p \in AnyPriority \ {""} :
             LET i == response'.ticket_id IN
             (i \in DOMAIN tickets /\ PriorityOnlyUpdate(s, i, p))
             => /\ tickets'[i].priority = p
                /\ tickets'[i].status = tickets[i].status
                /\ tickets'[i].handler = tickets[i].handler]_vars

\* C7 as amended: an accepted update that carries only a priority sets the
\* priority and leaves the status as it was; it leaves the handler as it was
\* except that the handler flow binds an unassigned ticket to an acting member
\* of the group 'Handler'.
PriorityOnlyFrameBinding ==
    [][response'.msg = "updated" =>
          \A s \in Requester, p \in AnyPriority \ {""} :
             LET i == response'.ticket_id IN
             (i \in DOMAIN tickets /\ PriorityOnlyUpdate(s, i, p))
             => /\ tickets'[i].priority = p
                /\ tickets'[i].status = tickets[i].status
                /\ tickets'[i].handler =
                      IF /\ response'.view = "handler_dashboard"
                         /\ tickets[i].handler = None
                         /\ s.user \in handlerGroup
                      THEN s.user ELSE tickets[i].handler]_vars

\* C7 witness: the handler flow has accepted an update without a status on a
\* completed ticket whose priority it set.
PriorityChangedOnCompleted ==
    /\ response.view = "handler_dashboard"
    /\ response.msg = "updated"
    /\ response.ticket_id \in DOMAIN tickets
    /\ tickets[response.ticket_id].priority = "high"
    /\ tickets[response.ticket_id].status = "completed"
    /\ tickets[response.ticket_id].completed_at = NoTime
    /\ tickets[response.ticket_id].handler = response.user

\* C8: an accepted handler-flow update on an unassigned ticket leaves the
\* ticket's handler equal to the acting user.
HandlerBoundOnWrite ==
    [][(response'.view = "handler_dashboard" /\ response'.msg = "updated") =>
          \A s \in Requester, p \in AnyPriority, t \in AnyStatus :
             LET i == response'.ticket_id IN
             (/\ i \in DOMAIN tickets
              /\ tickets[i].handler = None
              /\ handler_dashboard(s, i, p, t))
             => tickets'[i].handler = s.user]_vars

\* C9: an agent-flow update by agent G is applied exactly when the ticket's
\* agent is null or G, and then the agent is G; otherwise it is answered
\* 'not allowed' and changes no ticket; and no step changes a ticket's agent
\* once it is set.
AgentClaimOnWrite ==
    [][/\ \A i \in DOMAIN tickets \cap DOMAIN tickets' :
             tickets[i].agent # None => tickets'[i].agent = tickets[i].agent
       /\ response'.view = "agent_dashboard" =>
             \A s \in Requester, p \in AnyPriority, t \in AnyStatus :
                LET i == response'.ticket_id IN
                (/\ is_agent(s.user)
                 /\ i \in DOMAIN tickets
                 /\ agent_dashboard(s, i, p, t))
                => IF tickets[i].agent \in {None, s.user}
                   THEN /\ response'.msg = "updated"
                        /\ tickets'[i].agent = s.user
                   ELSE /\ response'.msg = "not_allowed"
                        /\ tickets' = tickets]_vars

\* C9 witness: an agent's update of a ticket that another agent holds has
\* been answered 'not allowed'.
AgentConflictRejected ==
    /\ response.view = "agent_dashboard"
    /\ response.msg = "not_allowed"
    /\ response.ticket_id \in DOMAIN tickets
    /\ tickets[response.ticket_id].agent \notin {None, response.user}

\* C10: of two handler-flow requests of different handlers on the same
\* unassigned ticket, at most one is accepted as the one that binds it.
NoDoubleClaim ==
    \A r1, r2 \in DOMAIN inflight :
        (/\ r1 # r2
         /\ inflight[r1].ticket_id = inflight[r2].ticket_id
         /\ inflight[r1].msg = "updated"
         /\ inflight[r2].msg = "updated"
         /\ inflight[r1].ticket.handler = inflight[r1].sess.user
         /\ inflight[r2].ticket.handler = inflight[r2].sess.user)
        => inflight[r1].sess.user = inflight[r2].sess.user

\* The step is a request to a view other than the login views: the clock and
\* the group 'Handler' stand still, and the reply is the request's.
RequestStep == now' = now /\ handlerGroup' = handlerGroup /\ users' = users

\* The tickets mark_all_completed selects.
OpenTickets == {i \in DOMAIN tickets : tickets[i].status \in {"pending", "in_progress"}}

\* What mark_all_completed by an admin does to the tickets: the open ones
\* become completed at now, whoever they are bound to, the others stay.
MarkAllEffect ==
    /\ DOMAIN tickets' = DOMAIN tickets
    /\ \A i \in DOMAIN tickets :
          tickets'[i] = IF i \in OpenTickets
                        THEN [tickets[i] EXCEPT !.status = "completed",
                                                !.completed_at = now]
                        ELSE tickets[i]

DeleteSelectedExact ==
    [][(response'.view = "delete_selected" /\ response'.user \in Superusers) =>
          \A s \in Requester, ids \in SUBSET DeskIds :
             delete_selected(s, ids) =>
                LET hit == {i \in DOMAIN tickets :
                               i \in ids /\ tickets[i].status = "completed"}
                IN /\ DOMAIN tickets' = DOMAIN tickets \ hit
                   /\ \A j \in DOMAIN tickets' : tickets'[j] = tickets[j]
                   /\ response'.count = Cardinality(hit)
                   /\ response'.msg = "deleted"]_vars

\* C12 witness: delete_selected has removed two tickets and left a ticket
\* that is not completed.
DeletedTwoKeptOpen ==
    /\ response.view = "delete_selected"
    /\ response.count = 2
    /\ Cardinality(DOMAIN tickets) = MaxDesk - 2
    /\ \E i \in DOMAIN tickets : tickets[i].status # "completed"

\* C13: delete_ticket, mark_all_completed and delete_selected sent by anyone
\* who is no superuser change no ticket and no comment.
AdminOnlyDestructive ==
    [][(/\ RequestStep
        /\ response'.view \in {"delete_ticket", "mark_all_completed",
                               "delete_selected"}
        /\ response'.user \notin Superusers)
          => (tickets' = tickets /\ comments' = comments)]_vars

\* C13 witness: a member of the staff who is no superuser has sent
\* delete_selected while a completed ticket was stored, and it is still there.
StaffDeleteRefused ==
    /\ response.view = "delete_selected"
    /\ response.user \in Staff
    /\ response.msg = "login"
    /\ \E i \in DOMAIN tickets : tickets[i].status = "completed"

\* The views that name a ticket and guard it.
GuardedViews ==
    {"admin_dashboard", "agent_dashboard", "handler_dashboard", "delete_ticket"}

\* The step is the request of session s to the view the reply names, for
\* ticket i.
GuardedRequest(s, i) ==
    CASE response'.view = "admin_dashboard" ->
            \E p \in AnyPriority, d \in {"", "d1", "d9"} :
               admin_dashboard(s, i, p, d)
      [] response'.view = "agent_dashboard" ->
            \E p \in AnyPriority, t \in AnyStatus : agent_dashboard(s, i, p, t)
      [] response'.view = "handler_dashboard" ->
            \E p \in AnyPriority, t \in AnyStatus :
               handler_dashboard(s, i, p, t)
      [] response'.view = "delete_ticket" -> delete_ticket(s, i)
      [] OTHER -> FALSE

\* The role each guarded view asks of the session.
PassesRoleGate(s) ==
    /\ s.user # None
    /\ CASE response'.view = "agent_dashboard" -> s.user \in AgentGroup
         [] response'.view = "handler_dashboard" ->
               s.handler_logged_in \/ s.user \in handlerGroup
         [] OTHER -> s.user \in Superusers

\* C14 as stated: a guarded operation that names an id of no stored ticket
\* answers not found, whoever the actor is.
NotFoundBeforeAuthorization ==
    [][(/\ RequestStep
        /\ response'.view \in GuardedViews
        /\ response'.ticket_id \notin DOMAIN tickets)
          => response'.msg = "not_found"]_vars

\* C14 as amended: a guarded operation that names an id of no stored ticket
\* answers not found when the actor passes the role gate of the operation,
\* before any test of the ticket's binding or status, and sends an actor who
\* does not pass the gate to the login; not found is never answered as not
\* allowed.
NotFoundAfterRoleGate ==
    [][(/\ RequestStep
        /\ response'.view \in GuardedViews
        /\ response'.ticket_id \notin DOMAIN tickets)
          => /\ tickets' = tickets
             /\ response'.msg \in {"not_found", "login"}
             /\ \A s \in Requester :
                   GuardedRequest(s, response'.ticket_id) =>
                      (response'.msg = "not_found" <=> PassesRoleGate(s))]_vars

\* C14 witness: a member of 'Handler' has sent an update for an id of no
\* stored ticket and got not found.
HandlerGotNotFound ==
    /\ response.view = "handler_dashboard"
    /\ response.msg = "not_found"
    /\ response.user \in handlerGroup
    /\ response.ticket_id \notin DOMAIN tickets

TicketCreatedAsSubmitted ==
    [][(/\ RequestStep
        /\ response'.view = "submit_ticket"
        /\ response'.msg = "submitted")
          => \A s \in Requester, d \in {"", "d1", "d9"} :
                submit_ticket(s, d) =>
                   LET i == response'.ticket_id
                       t == tickets'[i]
                   IN /\ i \notin DOMAIN tickets
                      /\ DOMAIN tickets' = DOMAIN tickets \cup {i}
                      /\ \A j \in DOMAIN tickets : tickets'[j] = tickets[j]
                      /\ t.created_by = s.user
                      /\ s.user # None
                      /\ t.status = "pending"
                      /\ t.completed_at = NoTime
                      /\ t.priority = "medium"
                      /\ t.department = (IF d = "d1" THEN "d1" ELSE None)
                      /\ IF handlerGroup = {} THEN t.handler = None
                         ELSE /\ t.handler \in handlerGroup
                              /\ \A v \in handlerGroup :
                                    UserPk(t.handler) <= UserPk(v)]_vars

\* C16 witness: a ticket has been submitted for department d1 while the
\* group 'Handler' had h2 and the account of the special login as members,
\* and h2 is its handler.
SubmittedToFirstOfTwo ==
    /\ response.view = "submit_ticket"
    /\ response.msg = "submitted"
    /\ response.ticket_id \in DOMAIN tickets
    /\ tickets[response.ticket_id].handler = "h2"
    /\ tickets[response.ticket_id].department = "d1"
    /\ "handler" \in handlerGroup

\* C17: sla_status of a ticket is 'open' if its status is not completed,
\* whatever its timestamps, 'on_time' if it is completed and completed_at is
\* at most four hours after created_at, and 'delayed' otherwise; computing it
\* changes no ticket.
SlaStatusByCases ==
    [][response'.view = "sla_status" =>
          LET t == tickets[response'.ticket_id]
          IN /\ response'.msg =
                   IF t.status # "completed" THEN "open"
                   ELSE IF /\ t.completed_at # NoTime
                           /\ t.completed_at - t.created_at <= 240
                        THEN "on_time"
                   ELSE "delayed"
             /\ tickets' = tickets]_vars

\* C17 witness: sla_status has answered 'on_time' for a ticket completed
\* exactly four hours after its creation.
OnTimeAtFourHours ==
    /\ response.view = "sla_status"
    /\ response.msg = "on_time"
    /\ tickets[response.ticket_id].completed_at
          - tickets[response.ticket_id].created_at = 240

\* The texts a comment form can carry.
AnyText == {<<>>, <<" ">>, <<" ", "a", " ", "b", " ">>, <<"a">>}

Blank(x) == \A k \in DOMAIN x : x[k] = " "

\* y is x without the blanks at its two ends.
IsStripped(y, x) ==
    /\ y # <<>>
    /\ y[1] # " "
    /\ y[Len(y)] # " "
    /\ \E a \in 0 .. Len(x) :
          /\ a + Len(y) <= Len(x)
          /\ SubSeq(x, a + 1, a + Len(y)) = y
          /\ \A k \in DOMAIN x : (k <= a \/ k > a + Len(y)) => x[k] = " "

\* C18: a comment form with an empty or blank text stores nothing; with any
\* other text it stores exactly one new comment of the acting user on the
\* ticket, with the stripped text; it never changes a ticket; and no step
\* changes a stored comment or removes one whose ticket stays stored.
CommentsAppendOnly ==
    [][/\ \A c \in comments :
             c \in comments' \/ (c.ticket \in DOMAIN tickets
                                  /\ c.ticket \notin DOMAIN tickets')
       /\ (RequestStep /\ response'.view = "ticket_detail") =>
             /\ tickets' = tickets
             /\ \A s \in Requester, x \in AnyText :
                   LET i == response'.ticket_id IN
                   (/\ s.user # None
                    /\ i \in DOMAIN tickets
                    /\ ticket_detail(s, i, x))
                   => IF Blank(x) THEN comments' = comments
                      ELSE /\ comments \subseteq comments'
                           /\ Cardinality(comments' \ comments) = 1
                           /\ \A c \in comments' \ comments :
                                 /\ c.user = s.user
                                 /\ c.ticket = i
                                 /\ IsStripped(c.text, x)]_vars

\* C18 witness: a comment has been stored with its text stripped at both
\* ends and its inner blank kept.
StrippedCommentStored ==
    /\ response.view = "ticket_detail"
    /\ response.msg = "comment_added"
    /\ \E c \in comments :
          /\ c.ticket = response.ticket_id
          /\ c.user = response.user
          /\ c.text = <<"a", " ", "b">>

\* C19: the count a request of delete_selected reports is the number of
\* tickets it removed, and every ticket it removed was completed when it was
\* removed, whatever the handlers and mark_all_completed do meanwhile.
BulkDeleteCountsWhatItRemoves ==
    \A r \in DOMAIN inflight :
        inflight[r].msg = "deleted" =>
           /\ inflight[r].count = Cardinality(DOMAIN inflight[r].removed)
           /\ \A i \in DOMAIN inflight[r].removed :
                 inflight[r].removed[i].status = "completed"

\* C20: no step changes the sla_status of a ticket whose status is
\* 'completed' before and after the step.
SlaVerdictStable ==
    [][\A i \in DOMAIN tickets \cap DOMAIN tickets' :
          (tickets[i].status = "completed" /\ tickets'[i].status = "completed")
             => sla_status(tickets'[i]) = sla_status(tickets[i])]_vars

\* Every session a login view hands out is one of Sessions.
SessionsClosed ==
    response.session # Kept => response.session \in Sessions(users)

====
